---- MODULE Spec2Model ----
(***************************************************************************)
(* Model of voipms/entities/calls.py: the Calls endpoint of the voip.ms    *)
(* client.  Each public method validates its arguments, builds a parameter *)
(* mapping and delegates to self._voipms_client._get exactly once.         *)
(*                                                                         *)
(* One invocation is one behaviour: Init draws the method and its          *)
(* arguments (with the wall clock and the transport's reaction) from       *)
(* bounded sets, and one action per method runs the method's whole body.   *)
(***************************************************************************)
EXTENDS Integers, Sequences, FiniteSets, TLC

VARIABLES op, client, date_from, date_to, timezone,
          answered, noanswer, busy, failed, kwargs,
          now, transport, pc, calls, result

vars == <<op, client, date_from, date_to, timezone,
          answered, noanswer, busy, failed, kwargs,
          now, transport, pc, calls, result>>

(***************************************************************************)
(* Bounds of the model.                                                    *)
(***************************************************************************)
MaxTick == 1      \* wall-clock instants per day: 0 (midnight) .. MaxTick
MaxKwargs == 2    \* number of extra keyword arguments in one get_cdr call
MaxClient == 1    \* integer client ids range over -MaxClient .. MaxClient

(***************************************************************************)
(* Python values.  A value is a record with its type name and one payload  *)
(* field per payload kind, so that values of different types compare.      *)
(* A str is the sequence of its characters.                                *)
(***************************************************************************)
PyInt(n)   == [t |-> "int",      i |-> n, b |-> FALSE, s |-> <<>>]
PyBool(x)  == [t |-> "bool",     i |-> 0, b |-> x,     s |-> <<>>]
PyStr(cs)  == [t |-> "str",      i |-> 0, b |-> FALSE, s |-> cs]
PyFloat(n) == [t |-> "float",    i |-> n, b |-> FALSE, s |-> <<>>]
PyList(xs) == [t |-> "list",     i |-> 0, b |-> FALSE, s |-> xs]
PyNone     == [t |-> "NoneType", i |-> 0, b |-> FALSE, s |-> <<>>]

\* isinstance(v, cls): bool is a subclass of int.
IsInstance(v, cls) ==
    \/ v.t = cls
    \/ cls = "int" /\ v.t = "bool"

\* bool(v), the test of "if v:".
Truthy(v) ==
    CASE v.t = "NoneType" -> FALSE
      [] v.t = "bool"     -> v.b
      [] v.t = "int"      -> v.i # 0
      [] v.t = "float"    -> v.i # 0
      [] v.t = "str"      -> Len(v.s) > 0
      [] v.t = "list"     -> Len(v.s) > 0

(***************************************************************************)
(* Exceptions and the outcome of one invocation.                           *)
(* The message of an exception is the sequence of the pieces that are      *)
(* concatenated to build it.                                               *)
(***************************************************************************)
ValueError(msg) == [type |-> "ValueError", msg |-> msg]
NoError == [type |-> "", msg |-> <<>>]

Raise(e)  == [kind |-> "raise",  err |-> e,       val |-> ""]
Return(x) == [kind |-> "return", err |-> NoError, val |-> x]
Pending   == [kind |-> "none",   err |-> NoError, val |-> ""]

(***************************************************************************)
(* voipms.helpers: validate_date and convert_bool.                         *)
(* validate_date parses a 'YYYY-MM-DD' string into a datetime at midnight  *)
(* and raises ValueError when the string does not parse.                   *)
(***************************************************************************)
Digits == {"0", "1", "2", "3", "4", "5", "6", "7", "8", "9"}

DigitVal(c) ==
    CASE c = "0" -> 0 [] c = "1" -> 1 [] c = "2" -> 2 [] c = "3" -> 3
      [] c = "4" -> 4 [] c = "5" -> 5 [] c = "6" -> 6 [] c = "7" -> 7
      [] c = "8" -> 8 [] c = "9" -> 9

AllDigits(cs) == \A k \in 1..Len(cs) : cs[k] \in Digits

RECURSIVE NumVal(_)
NumVal(cs) ==
    IF Len(cs) = 0 THEN 0
    ELSE 10 * NumVal(SubSeq(cs, 1, Len(cs) - 1)) + DigitVal(cs[Len(cs)])

IsLeap(y) == (y % 4 = 0 /\ y % 100 # 0) \/ y % 400 = 0

DaysInMonth(y, m) ==
    IF m = 2 THEN (IF IsLeap(y) THEN 29 ELSE 28)
    ELSE IF m \in {4, 6, 9, 11} THEN 30 ELSE 31

\* Position of the dash that ends the month field, 0 when there is none.
MonthEnd(cs) ==
    IF Len(cs) >= 7 /\ cs[7] = "-" THEN 7
    ELSE IF Len(cs) >= 8 /\ cs[8] = "-" THEN 8 ELSE 0

\* The fields of the string as %Y-%m-%d reads them: four digits, a month of
\* one or two digits, a day of one or two digits, nothing left over.
Matches(cs) ==
    /\ Len(cs) >= 8
    /\ AllDigits(SubSeq(cs, 1, 4))
    /\ cs[5] = "-"
    /\ MonthEnd(cs) # 0
    /\ LET mm == SubSeq(cs, 6, MonthEnd(cs) - 1)
           dd == SubSeq(cs, MonthEnd(cs) + 1, Len(cs))
       IN  /\ Len(mm) \in {1, 2} /\ AllDigits(mm) /\ NumVal(mm) \in 1..12
           /\ Len(dd) \in {1, 2} /\ AllDigits(dd) /\ NumVal(dd) \in 1..31

Fields(cs) ==
    [y |-> NumVal(SubSeq(cs, 1, 4)),
     m |-> NumVal(SubSeq(cs, 6, MonthEnd(cs) - 1)),
     d |-> NumVal(SubSeq(cs, MonthEnd(cs) + 1, Len(cs)))]

WellFormed(cs) ==
    /\ Matches(cs)
    /\ Fields(cs).y >= 1
    /\ Fields(cs).d <= DaysInMonth(Fields(cs).y, Fields(cs).m)

\* A datetime: calendar date and the instant of the day (0 is midnight).
Datetime(y, m, d, tick) == [y |-> y, m |-> m, d |-> d, tick |-> tick]

\* validate_date(date_text): the parsed datetime, at midnight.
validate_date(cs) ==
    Datetime(Fields(cs).y, Fields(cs).m, Fields(cs).d, 0)

DateFormatError == ValueError(<<"Incorrect date format, should be YYYY-MM-DD">>)

\* a > b on datetimes.
DatetimeGT(a, b) ==
    \/ a.y > b.y
    \/ a.y = b.y /\ a.m > b.m
    \/ a.y = b.y /\ a.m = b.m /\ a.d > b.d
    \/ a.y = b.y /\ a.m = b.m /\ a.d = b.d /\ a.tick > b.tick

\* convert_bool(boolean): the transport's encoding of a boolean.
convert_bool(v) == IF v.b THEN PyStr(<<"1">>) ELSE PyStr(<<"0">>)

(***************************************************************************)
(* The transport, self._voipms_client._get(method, parameters): it records *)
(* the request and either returns the decoded response or raises.          *)
(***************************************************************************)
EmptyDict == <<>>

Request(method, parameters, given) ==
    [method |-> method, parameters |-> parameters, given |-> given]

\* Variant: the transport's error is caught and raised again as a ValueError.
TransportOutcome_Wrapped(tr) ==
    IF tr.kind = "raise" THEN Raise(ValueError(tr.err.msg)) ELSE Return(tr.val)

TransportOutcome(tr) ==
    IF tr.kind = "raise" THEN Raise(tr.err) ELSE Return(tr.val)

\* Variant: the request is sent a second time.
Delegated_Retry(method, parameters, given, tr) ==
    [requests |-> <<Request(method, parameters, given),
                    Request(method, parameters, given)>>,
     result   |-> TransportOutcome(tr)]

\* What a method's body leaves behind: the requests made and the outcome.
Delegated(method, parameters, given, tr) ==
    [requests |-> <<Request(method, parameters, given)>>,
     result   |-> TransportOutcome(tr)]

Rejected(e) == [requests |-> <<>>, result |-> Raise(e)]

(***************************************************************************)
(* Calls.get_call_accounts, Calls.get_call_billing, Calls.get_call_types   *)
(***************************************************************************)
ClientError ==
    ValueError(<<"ID for a specific Reseller Client as int (Example: 561115)">>)

\* The "if client:" block shared by get_call_accounts and get_call_types.
ClientProvided(c) == Truthy(c)

get_call_accounts(c, tr) ==
    LET method == "getCallAccounts" IN
    IF ClientProvided(c)
    THEN IF ~IsInstance(c, "int")
         THEN Rejected(ClientError)
         ELSE Delegated(method, ("client" :> c), TRUE, tr)
    ELSE Delegated(method, EmptyDict, TRUE, tr)

get_call_billing(tr) ==
    LET method == "getCallBilling" IN
    Delegated(method, EmptyDict, FALSE, tr)

get_call_types(c, tr) ==
    LET method == "getCallTypes" IN
    IF ClientProvided(c)
    THEN IF ~IsInstance(c, "int")
         THEN Rejected(ClientError)
         ELSE Delegated(method, ("client" :> c), TRUE, tr)
    ELSE Delegated(method, EmptyDict, TRUE, tr)

(***************************************************************************)
(* Calls.get_cdr                                                           *)
(***************************************************************************)
StartDateError ==
    ValueError(<<"Start Date for Filtering CDR needs to be str (Example: '2010-11-30')">>)
EndDateError ==
    ValueError(<<"End Date for Filtering CDR needs to be str (Example: '2010-11-30')">>)
DateOrderError ==
    ValueError(<<"The start date needs to be ealier or the same as the end date.">>)
FutureError ==
    ValueError(<<"The end date can't be in the future.">>)
TimezoneError ==
    ValueError(<<"Adjust time of calls according to Timezome needs to be int (Numeric: -12 to 13)">>)
AnsweredError ==
    ValueError(<<"Include Answered Calls to CDR needs to be bool (Default: False, Boolean: True/False)">>)
NoAnswerError ==
    ValueError(<<"Include NoAnswered calls to CDR needs to be bool (Default: False, Boolean: True/False)">>)
BusyError ==
    ValueError(<<"Include Busy Calls to CDR needs to be bool (Default: False, Boolean: True/False)">>)
FailedError ==
    ValueError(<<"Include Failed Calls to CDR needs to be bool (Default: False, Boolean: True/False)">>)
NoStatusError ==
    ValueError(<<"No Call Status was provided. One of the following parameters needs to be set to True: answered, noanswer, busy, failed">>)
CallTypeError ==
    ValueError(<<"Filters CDR by Call Type needs to be a str (Values from calls.get_call_types)">>)
CallBillingError ==
    ValueError(<<"Filter CDR by Call Billing needs to be a str (Values from calls.get_call_billing)">>)
AccountError ==
    ValueError(<<"Filter CDR by Account needs to be an in (Values from calls.get_call_accounts)">>)
NotAllowedPrefix == "Parameters not allowed: "

\* **kwargs is a dict in call order: a sequence of entries with distinct keys.
Entry(k, v) == [key |-> k, val |-> v]
Keys(kw) == {kw[j].key : j \in 1..Len(kw)}
Lookup(kw, k) == kw[CHOOSE j \in 1..Len(kw) : kw[j].key = k].val
Pop(kw, k) == SelectSeq(kw, LAMBDA e : e.key # k)

\* parameters[k] = v
Put(parameters, k, v) == (k :> v) @@ parameters

\* Variant: date_from_object >= date_to_object
StartAfterEnd_OrEqual(date_from_object, date_to_object) ==
    ~DatetimeGT(date_to_object, date_from_object)

\* date_from_object > date_to_object
StartAfterEnd(date_from_object, date_to_object) ==
    DatetimeGT(date_from_object, date_to_object)

\* Variant: date_to_object >= datetime.now()
EndInFuture_OrEqual(date_to_object, nw) == ~DatetimeGT(nw, date_to_object)

\* date_to_object > datetime.now()
EndInFuture(date_to_object, nw) == DatetimeGT(date_to_object, nw)

\* Variant: not (answered and noanswer and busy and failed)
NoCallStatus_AnyFalse(a, n, b, f) ==
    ~(Truthy(a) /\ Truthy(n) /\ Truthy(b) /\ Truthy(f))

\* not (answered or noanswer or busy or failed)
NoCallStatus(a, n, b, f) ==
    ~(Truthy(a) \/ Truthy(n) \/ Truthy(b) \/ Truthy(f))

\* Variant: busy and failed change places.
CdrParameters_Swapped(df, dt, tz, a, n, b, f) ==
    [date_from |-> df, date_to |-> dt, timezone |-> tz,
     answered |-> convert_bool(a), noanswer |-> convert_bool(n),
     busy |-> convert_bool(f), failed |-> convert_bool(b)]

\* The parameters dict literal.
CdrParameters(df, dt, tz, a, n, b, f) ==
    [date_from |-> df, date_to |-> dt, timezone |-> tz,
     answered |-> convert_bool(a), noanswer |-> convert_bool(n),
     busy |-> convert_bool(b), failed |-> convert_bool(f)]

\* Variant: the loop stops after the first key.
NotAllowedParameters_First(kw) ==
    IF Len(kw) = 0 THEN <<>> ELSE <<kw[1].key, " ">>

\* The loop that builds not_allowed_parameters from what is left in kwargs.
RECURSIVE NotAllowedParameters(_)
NotAllowedParameters(kw) ==
    IF Len(kw) = 0 THEN <<>>
    ELSE <<kw[1].key, " ">> \o NotAllowedParameters(Tail(kw))

NotAllowedError(kw) ==
    ValueError(<<NotAllowedPrefix>> \o NotAllowedParameters(kw))

\* Variant: the unknown keys are looked for before the filters' types.
CdrFilters_UnknownFirst(method, p0, kw0, tr) ==
    LET unknown == SelectSeq(kw0, LAMBDA e : e.key \notin
                                {"calltype", "callbilling", "account"})
    IN
    IF Len(unknown) > 0
    THEN Rejected(NotAllowedError(unknown))
    ELSE
    IF "calltype" \in Keys(kw0) /\ ~IsInstance(Lookup(kw0, "calltype"), "str")
    THEN Rejected(CallTypeError)
    ELSE
    IF "callbilling" \in Keys(kw0) /\ ~IsInstance(Lookup(kw0, "callbilling"), "str")
    THEN Rejected(CallBillingError)
    ELSE
    IF "account" \in Keys(kw0) /\ ~IsInstance(Lookup(kw0, "account"), "int")
    THEN Rejected(AccountError)
    ELSE
    LET p1 == IF "calltype" \in Keys(kw0)
              THEN Put(p0, "calltype", Lookup(kw0, "calltype")) ELSE p0
        p2 == IF "callbilling" \in Keys(kw0)
              THEN Put(p1, "callbilling", Lookup(kw0, "callbilling")) ELSE p1
        p3 == IF "account" \in Keys(kw0)
              THEN Put(p2, "account", Lookup(kw0, "account")) ELSE p2
    IN Delegated(method, p3, TRUE, tr)

\* The optional filters and the final delegation.
CdrFilters(method, p0, kw0, tr) ==
    IF "calltype" \in Keys(kw0) /\ ~IsInstance(Lookup(kw0, "calltype"), "str")
    THEN Rejected(CallTypeError)
    ELSE
    LET p1  == IF "calltype" \in Keys(kw0)
               THEN Put(p0, "calltype", Lookup(kw0, "calltype")) ELSE p0
        kw1 == Pop(kw0, "calltype")
    IN
    IF "callbilling" \in Keys(kw1) /\ ~IsInstance(Lookup(kw1, "callbilling"), "str")
    THEN Rejected(CallBillingError)
    ELSE
    LET p2  == IF "callbilling" \in Keys(kw1)
               THEN Put(p1, "callbilling", Lookup(kw1, "callbilling")) ELSE p1
        kw2 == Pop(kw1, "callbilling")
    IN
    IF "account" \in Keys(kw2) /\ ~IsInstance(Lookup(kw2, "account"), "int")
    THEN Rejected(AccountError)
    ELSE
    LET p3  == IF "account" \in Keys(kw2)
               THEN Put(p2, "account", Lookup(kw2, "account")) ELSE p2
        kw3 == Pop(kw2, "account")
    IN
    IF Len(kw3) > 0
    THEN Rejected(NotAllowedError(kw3))
    ELSE Delegated(method, p3, TRUE, tr)

get_cdr(df, dt, tz, a, n, b, f, kw, nw, tr) ==
    LET method == "getCDR" IN
    IF ~IsInstance(df, "str") THEN Rejected(StartDateError)
    ELSE IF ~IsInstance(dt, "str") THEN Rejected(EndDateError)
    ELSE IF ~WellFormed(df.s) THEN Rejected(DateFormatError)
    ELSE IF ~WellFormed(dt.s) THEN Rejected(DateFormatError)
    ELSE IF StartAfterEnd(validate_date(df.s), validate_date(dt.s))
         THEN Rejected(DateOrderError)
    ELSE IF EndInFuture(validate_date(dt.s), nw) THEN Rejected(FutureError)
    ELSE IF ~IsInstance(tz, "int") THEN Rejected(TimezoneError)
    ELSE IF ~IsInstance(a, "bool") THEN Rejected(AnsweredError)
    ELSE IF ~IsInstance(n, "bool") THEN Rejected(NoAnswerError)
    ELSE IF ~IsInstance(b, "bool") THEN Rejected(BusyError)
    ELSE IF ~IsInstance(f, "bool") THEN Rejected(FailedError)
    ELSE IF NoCallStatus(a, n, b, f) THEN Rejected(NoStatusError)
    ELSE CdrFilters(method, CdrParameters(df, dt, tz, a, n, b, f), kw, tr)

(***************************************************************************)
(* The arguments one invocation can be given.                              *)
(***************************************************************************)
Jan31      == <<"2", "0", "2", "0", "-", "0", "1", "-", "3", "1">>
Jan31Short == <<"2", "0", "2", "0", "-", "1", "-", "3", "1">>
Feb01      == <<"2", "0", "2", "0", "-", "0", "2", "-", "0", "1">>
Feb30      == <<"2", "0", "2", "0", "-", "0", "2", "-", "3", "0">>
DayFirst   == <<"3", "1", "-", "0", "1", "-", "2", "0", "2", "0">>

ClientArgs ==
    {PyNone, PyBool(TRUE), PyBool(FALSE),
     PyStr(<<>>), PyStr(<<"5", "6">>), PyFloat(0), PyFloat(1),
     PyList(<<>>), PyList(<<"5", "6">>)}
    \cup {PyInt(k) : k \in (0 - MaxClient)..MaxClient}

DateArgs ==
    {PyStr(Jan31), PyStr(Jan31Short), PyStr(Feb01), PyStr(Feb30),
     PyStr(DayFirst), PyStr(<<>>), PyInt(20200131), PyNone}
DateArgsFew == {PyStr(Jan31), PyStr(Feb01), PyInt(20200131)}

\* The wall clock: the day is 2020-01-31 or 2020-02-01, at any instant.
Nows == {Datetime(2020, 1, 31, k) : k \in 0..MaxTick}
        \cup {Datetime(2020, 2, 1, k) : k \in 0..MaxTick}
NowsFew == {Datetime(2020, 1, 31, MaxTick)}

TimezoneArgs == {PyInt(0 - 5), PyInt(0), PyInt(14), PyBool(TRUE),
                 PyStr(<<"-", "5">>), PyFloat(1), PyNone}
TimezoneArgsFew == {PyInt(0 - 5), PyStr(<<"-", "5">>)}

FlagArgs == {PyBool(TRUE), PyBool(FALSE), PyInt(1)}
Flags == FlagArgs \X FlagArgs \X FlagArgs \X FlagArgs
FlagsFew == FlagArgs \X {PyBool(FALSE)} \X {PyBool(FALSE)}
                     \X {PyBool(TRUE), PyBool(FALSE)}

\* Extra keyword arguments: the three filters, rightly or wrongly typed, and
\* two names get_cdr does not know.
FilterEntries ==
    {Entry(k, v) : k \in {"calltype", "callbilling", "account"},
                   v \in {PyStr(<<"x">>), PyInt(7)}}
UnknownEntries == {Entry("bogus", PyInt(1)), Entry("junk", PyStr(<<"x">>))}
KwEntries == FilterEntries \cup UnknownEntries

RECURSIVE KwargsUpTo(_)
KwargsUpTo(len) ==
    IF len = 0 THEN {<<>>}
    ELSE LET shorter == KwargsUpTo(len - 1) IN
         shorter \cup {Append(kw, e) : kw \in shorter,
                                       e \in KwEntries}

DistinctKeys(kw) == Cardinality(Keys(kw)) = Len(kw)
Kwargs == {kw \in KwargsUpTo(MaxKwargs) : DistinctKeys(kw)}
KwargsFew == {<<>>, <<Entry("calltype", PyInt(7))>>,
              <<Entry("account", PyInt(7))>>, <<Entry("bogus", PyInt(1))>>}

\* What the transport does with a request: return the decoded response, or
\* raise an error of its own.
TransportError == [type |-> "VoipException", msg |-> <<"api failure">>]
TransportValueError == ValueError(<<"malformed response">>)
Transports ==
    {[kind |-> "return", err |-> NoError, val |-> "response"],
     [kind |-> "return", err |-> NoError, val |-> "other response"],
     [kind |-> "raise", err |-> TransportError, val |-> ""],
     [kind |-> "raise", err |-> TransportValueError, val |-> ""]}

(***************************************************************************)
(* One invocation.                                                         *)
(***************************************************************************)
Fresh ==
    /\ pc = "ready"
    /\ calls = <<>>
    /\ result = Pending
    /\ transport \in Transports

NoCdrArgs ==
    /\ date_from = PyNone /\ date_to = PyNone /\ timezone = PyNone
    /\ answered = PyBool(FALSE) /\ noanswer = PyBool(FALSE)
    /\ busy = PyBool(FALSE) /\ failed = PyBool(FALSE)
    /\ kwargs = <<>>
    /\ now \in NowsFew

InitClient ==
    /\ op \in {"get_call_accounts", "get_call_types"}
    /\ client \in ClientArgs
    /\ NoCdrArgs
    /\ Fresh

InitBilling ==
    /\ op = "get_call_billing"
    /\ client = PyNone
    /\ NoCdrArgs
    /\ Fresh

InitCdr(dates, nows, timezones, flags, extras) ==
    /\ op = "get_cdr"
    /\ client = PyNone
    /\ date_from \in dates /\ date_to \in dates
    /\ now \in nows
    /\ timezone \in timezones
    /\ \E fl \in flags :
          answered = fl[1] /\ noanswer = fl[2] /\ busy = fl[3] /\ failed = fl[4]
    /\ kwargs \in extras
    /\ Fresh

\* get_cdr is called with every date and clock, with every timezone and
\* flag, and with every set of extras, each against a few of the others.
Init ==
    \/ InitClient
    \/ InitBilling
    \/ InitCdr(DateArgs, Nows, TimezoneArgsFew, FlagsFew, KwargsFew)
    \/ InitCdr(DateArgsFew, NowsFew, TimezoneArgs, Flags, KwargsFew)
    \/ InitCdr(DateArgsFew, NowsFew, TimezoneArgsFew, FlagsFew, Kwargs)

Finish(out) ==
    /\ calls' = calls \o out.requests
    /\ result' = out.result
    /\ pc' = "done"
    /\ UNCHANGED <<op, client, date_from, date_to, timezone, answered,
                   noanswer, busy, failed, kwargs, now, transport>>

GetCallAccounts ==
    /\ pc = "ready" /\ op = "get_call_accounts"
    /\ Finish(get_call_accounts(client, transport))

GetCallBilling ==
    /\ pc = "ready" /\ op = "get_call_billing"
    /\ Finish(get_call_billing(transport))

GetCallTypes ==
    /\ pc = "ready" /\ op = "get_call_types"
    /\ Finish(get_call_types(client, transport))

GetCdr ==
    /\ pc = "ready" /\ op = "get_cdr"
    /\ Finish(get_cdr(date_from, date_to, timezone, answered, noanswer,
                      busy, failed, kwargs, now, transport))

Next == GetCallAccounts \/ GetCallBilling \/ GetCallTypes \/ GetCdr

Spec == Init /\ [][Next]_vars

(***************************************************************************)
(* Vocabulary of the properties.                                           *)
(***************************************************************************)
Done(o) == pc = "done" /\ op = o

IsInteger(v) == v.t \in {"int", "bool"}    \* Python: every bool is an int
IsBoolean(v) == v.t = "bool"
IsString(v)  == v.t = "str"

BaseKeys == {"date_from", "date_to", "timezone",
             "answered", "noanswer", "busy", "failed"}
FilterKeys == {"calltype", "callbilling", "account"}

\* The calendar date of a datetime as one number, ordered as dates are.
DateKey(dt) == dt.y * 10000 + dt.m * 100 + dt.d

DatesValid ==
    /\ IsString(date_from) /\ IsString(date_to)
    /\ WellFormed(date_from.s) /\ WellFormed(date_to.s)
FromKey == DateKey(validate_date(date_from.s))
ToKey   == DateKey(validate_date(date_to.s))
Today   == DateKey(now)

FlagSeq == <<answered, noanswer, busy, failed>>

\* The eight rules of get_cdr, as conditions on its arguments.
RuleViolated(k) ==
    CASE k = 1 -> ~DatesValid
      [] k = 2 -> DatesValid /\ FromKey > ToKey
      [] k = 3 -> DatesValid /\ ToKey > Today
      [] k = 4 -> ~IsInteger(timezone)
      [] k = 5 -> \E j \in 1..4 : ~IsBoolean(FlagSeq[j])
      [] k = 6 -> \A j \in 1..4 : FlagSeq[j] # PyBool(TRUE)
      [] k = 7 -> \/ "calltype" \in Keys(kwargs)
                     /\ ~IsString(Lookup(kwargs, "calltype"))
                  \/ "callbilling" \in Keys(kwargs)
                     /\ ~IsString(Lookup(kwargs, "callbilling"))
                  \/ "account" \in Keys(kwargs)
                     /\ ~IsInteger(Lookup(kwargs, "account"))
      [] k = 8 -> Keys(kwargs) \ FilterKeys # {}

ViolatedRules == {k \in 1..8 : RuleViolated(k)}
LowestViolated == CHOOSE k \in ViolatedRules : \A j \in ViolatedRules : k <= j

\* The error e is one of those rule k raises.
ErrorOfRule(e, k) ==
    CASE k = 1 -> e \in {StartDateError, EndDateError, DateFormatError}
      [] k = 2 -> e = DateOrderError
      [] k = 3 -> e = FutureError
      [] k = 4 -> e = TimezoneError
      [] k = 5 -> e \in {AnsweredError, NoAnswerError, BusyError, FailedError}
      [] k = 6 -> e = NoStatusError
      [] k = 7 -> e \in {CallTypeError, CallBillingError, AccountError}
      [] k = 8 -> /\ e.type = "ValueError" /\ Len(e.msg) >= 1
                  /\ e.msg[1] = NotAllowedPrefix

IsValidationError(e) ==
    \/ e = ClientError
    \/ \E k \in 1..8 : ErrorOfRule(e, k)

ValidationRaised == result.kind = "raise" /\ IsValidationError(result.err)

(***************************************************************************)
(* Properties.                                                             *)
(***************************************************************************)

\* C1: one invocation of any method ends either with the transport's _get
\* invoked exactly once and no validation error, or with a validation error
\* and _get never invoked; _get is never invoked before the method runs.
C1_ValidateThenDelegateOnce ==
    /\ pc = "ready" => calls = <<>>
    /\ pc = "done" =>
          \/ Len(calls) = 1 /\ ~ValidationRaised
          \/ Len(calls) = 0 /\ ValidationRaised

C1_Witness ==
    /\ Done("get_cdr") /\ Len(kwargs) = 2
    /\ Len(calls) = 0 /\ result = Raise(AccountError)

\* C2: get_call_accounts and get_call_types forward every integer client,
\* 0 and negative ones included, under the key "client" unchanged, and
\* forward no "client" key when client is omitted.
C2_ClientForwarded ==
    (Done("get_call_accounts") \/ Done("get_call_types")) =>
        /\ client.t = "int" =>
              /\ Len(calls) = 1
              /\ "client" \in DOMAIN calls[1].parameters
              /\ calls[1].parameters["client"] = client
        /\ client = PyNone =>
              /\ Len(calls) = 1
              /\ "client" \notin DOMAIN calls[1].parameters

\* C3: get_call_accounts and get_call_types raise the validation error and
\* make no request for every provided client that is not an integer, the
\* empty string, the empty list and 0.0 included.
C3_NonIntegerClientRejected ==
    ((Done("get_call_accounts") \/ Done("get_call_types"))
        /\ client # PyNone /\ ~IsInteger(client)) =>
            result = Raise(ClientError) /\ calls = <<>>

\* C4: a get_cdr call that violates no rule makes one "getCDR" request whose
\* parameters have exactly the seven base keys plus the supplied filters,
\* with the dates as given, the timezone and filters unchanged, each flag
\* as convert_bool encodes it, and get_cdr returns what the transport
\* returns.
C4_CdrParametersForwarded ==
    (Done("get_cdr") /\ ViolatedRules = {}) =>
        /\ Len(calls) = 1
        /\ calls[1].method = "getCDR"
        /\ calls[1].given
        /\ LET p == calls[1].parameters IN
           /\ DOMAIN p = BaseKeys \cup (Keys(kwargs) \cap FilterKeys)
           /\ p["date_from"] = date_from
           /\ p["date_to"] = date_to
           /\ p["timezone"] = timezone
           /\ p["answered"] = convert_bool(answered)
           /\ p["noanswer"] = convert_bool(noanswer)
           /\ p["busy"] = convert_bool(busy)
           /\ p["failed"] = convert_bool(failed)
           /\ \A k \in Keys(kwargs) : p[k] = Lookup(kwargs, k)
        /\ transport.kind = "return" => result = Return(transport.val)

C4_Witness ==
    /\ Done("get_cdr") /\ Len(calls) = 1
    /\ Keys(kwargs) = {"calltype", "account"}
    /\ date_from = PyStr(Jan31) /\ date_to = PyStr(Jan31)
    /\ failed = PyBool(TRUE) /\ answered = PyBool(FALSE)
    /\ result = Return("other response")

\* C5: a get_cdr call that passes rules 1-7 and has an extra key outside
\* calltype, callbilling, account raises a validation error without a
\* request; the message names every unrecognized key, each followed by a
\* space, and none of the three filter keys.
C5_UnknownKeysAllListed ==
    (Done("get_cdr") /\ ViolatedRules \cap (1..7) = {}
                     /\ Keys(kwargs) \ FilterKeys # {}) =>
        /\ result.kind = "raise"
        /\ calls = <<>>
        /\ LET msg == result.err.msg IN
           /\ result.err.type = "ValueError"
           /\ Len(msg) >= 1 /\ msg[1] = NotAllowedPrefix
           /\ \A k \in Keys(kwargs) \ FilterKeys :
                 \E j \in 2..(Len(msg) - 1) : msg[j] = k /\ msg[j + 1] = " "
           /\ \A j \in 1..Len(msg) : msg[j] \notin FilterKeys

C5_Witness ==
    /\ Done("get_cdr")
    /\ Keys(kwargs) = {"bogus", "junk"}
    /\ result = Raise(ValueError(<<NotAllowedPrefix, "junk", " ", "bogus", " ">>))

\* C6: with rules 1-5 satisfied, get_cdr raises the "No Call Status" error
\* without a request when the four flags are all False, and does not raise
\* it when at least one flag is True.
C6_AtLeastOneStatus ==
    (Done("get_cdr") /\ ViolatedRules \cap (1..5) = {}) =>
        /\ (\A j \in 1..4 : FlagSeq[j] = PyBool(FALSE)) =>
              result = Raise(NoStatusError) /\ calls = <<>>
        /\ (\E j \in 1..4 : FlagSeq[j] = PyBool(TRUE)) =>
              result # Raise(NoStatusError)

C6_Witness ==
    /\ Done("get_cdr") /\ timezone = PyBool(TRUE)
    /\ \A j \in 1..4 : FlagSeq[j] = PyBool(FALSE)
    /\ result = Raise(NoStatusError)

\* C7: for well-formed date strings, get_cdr raises the date-ordering error
\* (without a request) exactly when the parsed date_from is strictly later
\* than the parsed date_to; equal dates are not rejected by this rule.
C7_DateOrder ==
    (Done("get_cdr") /\ DatesValid) =>
        /\ (result = Raise(DateOrderError)) <=> (FromKey > ToKey)
        /\ result = Raise(DateOrderError) => calls = <<>>

C7_Witness ==
    /\ Done("get_cdr")
    /\ date_from = PyStr(Feb01) /\ date_to = PyStr(Jan31Short)
    /\ result = Raise(DateOrderError)

\* C8: for well-formed dates with date_from <= date_to, get_cdr raises the
\* "future" error (without a request) when date_to is after the current
\* date, and does not raise it when date_to is the current date or earlier,
\* whatever the time of day.
C8_NoFutureEndDate ==
    (Done("get_cdr") /\ DatesValid /\ FromKey <= ToKey) =>
        /\ ToKey > Today => result = Raise(FutureError) /\ calls = <<>>
        /\ ToKey <= Today => result # Raise(FutureError)

C8_Witness ==
    /\ Done("get_cdr")
    /\ date_to = PyStr(Feb01) /\ now = Datetime(2020, 1, 31, MaxTick)
    /\ result = Raise(FutureError)

\* C9: when the arguments are valid and the transport's _get raises, the
\* caller gets that very error and _get was invoked exactly once.
ArgumentsValid ==
    CASE op = "get_call_billing" -> TRUE
      [] op = "get_cdr" -> ViolatedRules = {}
      [] OTHER -> client = PyNone \/ IsInteger(client)

C9_TransportErrorPropagates ==
    (pc = "done" /\ ArgumentsValid /\ transport.kind = "raise") =>
        result = Raise(transport.err) /\ Len(calls) = 1

C9_Witness ==
    /\ Done("get_call_billing")
    /\ transport.err = TransportValueError
    /\ result = Raise(TransportValueError) /\ Len(calls) = 1

\* C10: get_cdr checks its eight rules in order: whenever a call violates
\* some rules, the error raised is one of the lowest-numbered violated rule
\* and no request is made.
C10_LowestRuleReported ==
    (Done("get_cdr") /\ ViolatedRules # {}) =>
        /\ result.kind = "raise"
        /\ ErrorOfRule(result.err, LowestViolated)
        /\ calls = <<>>

C10_Witness ==
    /\ Done("get_cdr")
    /\ {7, 8} \subseteq ViolatedRules
    /\ "calltype" \in Keys(kwargs)
    /\ result = Raise(CallTypeError)

====
